---- MODULE Spec2Model ----
(***************************************************************************)
(* Model of vcf-triage-cli: the triage pipeline (src/src/vcf_triage.py)    *)
(* and the IGV batch generator (src/src/igv_batch.py).                     *)
(*                                                                         *)
(* Text that the code inspects character by character (numeric tokens,     *)
(* CSV cells, genotype strings) is a sequence of one-character strings.    *)
(* Text that the code only compares or copies (gene names, consequence     *)
(* terms, paths) is a TLA+ string.  Floats are exact decimals counted in   *)
(* thousandths (30.0 is 30000, 0.01 is 10, an allele balance of 0.3 is     *)
(* 300); every token of the model has at most three decimals, so the       *)
(* comparisons agree with the code's float comparisons (nan and inf are    *)
(* not among the tokens).                                                  *)
(* An Optional value is a record [some, v].                                *)
(***************************************************************************)
EXTENDS Integers, Sequences, FiniteSets, TLC

VARIABLES
    cfg,            \* triage(): the arguments of the call (FilterConfig + paths)
    vcf_ok,         \* whether open_text_auto(vcf_path) succeeds
    t_pc,           \* triage(): "start", "loop", "done", "aborted"
    csv_file,       \* the file at out_csv
    summary_file,   \* the file at summary_path
    kept,           \* triage(): kept
    by_consequence, \* triage(): by_consequence
    seen,           \* the lines of the variant file consumed so far, with what
                    \* the loop body did for each
    icfg,           \* make_igv_batch(): the arguments of the call
    i_pc,           \* make_igv_batch(): "idle", "start", "loop", "done"
    table,          \* the rows of csv_path consumed so far, with the lines
                    \* each one appended to out_lines
    out_lines,      \* make_igv_batch(): out_lines
    count,          \* make_igv_batch(): count
    script,         \* the file at out_path
    ab_in,          \* allele-balance rule: the line it is applied to
    ab_out          \* allele-balance rule: what the loop body did with ab_in

vars == <<cfg, vcf_ok, t_pc, csv_file, summary_file, kept, by_consequence, seen,
          icfg, i_pc, table, out_lines, count, script, ab_in, ab_out>>

triage_vars == <<cfg, vcf_ok, t_pc, csv_file, summary_file, kept, by_consequence, seen>>
igv_vars == <<icfg, i_pc, table, out_lines, count, script>>
ab_vars == <<ab_in, ab_out>>

---------------------------------------------------------------------------
(* Bounds of the model *)

MaxLines == 2   \* lines of the variant file read in one run
MaxRows == 2    \* rows of the CSV table read in one run
MaxAD == 8      \* largest allele depth in the allele-balance inputs
MaxFlank == 2   \* largest |flank|

---------------------------------------------------------------------------
(* Optional values and text *)

None == [some |-> FALSE, v |-> 0]
Some(x) == [some |-> TRUE, v |-> x]
NoStr == [some |-> FALSE, v |-> ""]
NoSet == [some |-> FALSE, v |-> {}]

Digits == {"0", "1", "2", "3", "4", "5", "6", "7", "8", "9"}
Whitespace == {" ", "\t"}

DigitVal(c) ==
    CASE c = "0" -> 0 [] c = "1" -> 1 [] c = "2" -> 2 [] c = "3" -> 3 [] c = "4" -> 4
      [] c = "5" -> 5 [] c = "6" -> 6 [] c = "7" -> 7 [] c = "8" -> 8 [] c = "9" -> 9

DigitChar(n) ==
    CASE n = 0 -> "0" [] n = 1 -> "1" [] n = 2 -> "2" [] n = 3 -> "3" [] n = 4 -> "4"
      [] n = 5 -> "5" [] n = 6 -> "6" [] n = 7 -> "7" [] n = 8 -> "8" [] n = 9 -> "9"

RECURSIVE DigitsVal(_)
DigitsVal(s) ==
    IF Len(s) = 0 THEN 0
    ELSE 10 * DigitsVal(SubSeq(s, 1, Len(s) - 1)) + DigitVal(s[Len(s)])

\* str.isdigit(): non-empty and every character a digit
isdigit(s) == Len(s) > 0 /\ \A i \in 1..Len(s) : s[i] \in Digits

Unsigned(s) == IF Len(s) > 0 /\ s[1] \in {"+", "-"} THEN Tail(s) ELSE s
Negative(s) == Len(s) > 0 /\ s[1] = "-"

\* int(s) does not raise ValueError: an optional sign and decimal digits
IntParses(s) == isdigit(Unsigned(s))
\* int(s)
IntOf(s) == IF Negative(s) THEN 0 - DigitsVal(Unsigned(s)) ELSE DigitsVal(Unsigned(s))

RECURSIVE NatToStr(_)
NatToStr(n) ==
    IF n < 10 THEN <<DigitChar(n)>>
    ELSE NatToStr(n \div 10) \o <<DigitChar(n % 10)>>
\* str(n) of an int
IntToStr(n) == IF n < 0 THEN <<"-">> \o NatToStr(0 - n) ELSE NatToStr(n)

\* s.split(sep)
RECURSIVE Split(_, _)
Split(s, sep) ==
    IF \A i \in 1..Len(s) : s[i] # sep THEN <<s>>
    ELSE LET i == CHOOSE k \in 1..Len(s) :
                      s[k] = sep /\ \A j \in 1..(k - 1) : s[j] # sep
         IN  <<SubSeq(s, 1, i - 1)>> \o Split(SubSeq(s, i + 1, Len(s)), sep)

\* s.strip()
RECURSIVE strip(_)
strip(s) ==
    IF Len(s) = 0 THEN s
    ELSE IF s[1] \in Whitespace THEN strip(Tail(s))
    ELSE IF s[Len(s)] \in Whitespace THEN strip(SubSeq(s, 1, Len(s) - 1))
    ELSE s

\* float(s) does not raise ValueError, for the decimal notation
\* [sign] digits [ "." digits ] with at least one digit
FloatParses(s) ==
    LET u == Unsigned(s)
        p == Split(u, ".")
    IN  /\ Len(p) \in {1, 2}
        /\ \A i \in 1..Len(p) : \A j \in 1..Len(p[i]) : p[i][j] \in Digits
        /\ \E i \in 1..Len(p) : Len(p[i]) > 0
        /\ Len(p) = 2 => Len(p[2]) <= 3

\* float(s), in thousandths
FloatOf(s) ==
    LET u == Unsigned(s)
        p == Split(u, ".")
        frac == IF Len(p) = 2 THEN p[2] ELSE <<>>
        pad == frac \o SubSeq(<<"0", "0", "0">>, 1, 3 - Len(frac))
        mag == 1000 * DigitsVal(p[1]) + DigitsVal(pad)
    IN  IF Negative(s) THEN 0 - mag ELSE mag

\* round(num / den, 3) in thousandths, den # 0: round half to even, as
\* Python rounds the double num / den (exact whenever the tie is a dyadic
\* fraction, which is the only kind of tie the allele depths here produce)
Round3(num, den) ==
    LET n == IF den < 0 THEN 0 - num ELSE num
        d == IF den < 0 THEN 0 - den ELSE den
        q == (1000 * n) \div d
        r == (1000 * n) % d
    IN  IF 2 * r < d THEN q
        ELSE IF 2 * r > d THEN q + 1
        ELSE IF q % 2 = 0 THEN q ELSE q + 1

---------------------------------------------------------------------------
(* vcf_triage.py: parsing *)

\* parse_info: the INFO token is a sequence of fields [k, eq, v] (the token
\* split on ";"); a field without "=" maps its key to "True"
TrueTok == <<"T", "r", "u", "e">>
parse_info(s) ==
    LET idx == {i \in 1..Len(s) : s[i].k # "" \/ s[i].eq}
        keys == {s[i].k : i \in idx}
        last(k) == CHOOSE i \in idx : s[i].k = k /\ \A j \in idx : s[j].k = k => j <= i
    IN  [k \in keys |-> IF s[last(k)].eq THEN s[last(k)].v ELSE TrueTok]

\* parse_ann: the ANN value is a sequence of entries (the value split on ","),
\* each a sequence of parts (the entry split on "|"); the empty value is <<>>
parse_ann(info) ==
    IF "ANN" \notin DOMAIN info \/ Len(info["ANN"]) = 0
    THEN [gene |-> "", consequence |-> "", hgvsc |-> "", hgvsp |-> ""]
    ELSE LET parts == info["ANN"][1]
             at(i) == IF Len(parts) > i THEN parts[i + 1] ELSE ""
         IN  [gene |-> at(3), consequence |-> at(1), hgvsc |-> at(9), hgvsp |-> at(10)]

\* allele_balance: None when AD is missing or empty, when fewer than two
\* entries remain after [:2], when an entry is not an int, or when tot = 0
allele_balance(fmt_map) ==
    IF "AD" \notin DOMAIN fmt_map \/ Len(fmt_map["AD"]) = 0 THEN None
    ELSE LET xs == Split(fmt_map["AD"], ",")
             two == SubSeq(xs, 1, IF Len(xs) < 2 THEN Len(xs) ELSE 2)
         IN  IF Len(two) < 2 \/ \E i \in 1..Len(two) : ~IntParses(two[i]) THEN None
             ELSE LET ref == IntOf(two[1])
                      alt == IntOf(two[2])
                      tot == ref + alt
                  IN  IF tot # 0 THEN Some(Round3(alt, tot)) ELSE None

\* simple_vcf_iter, lines 96-100: the FORMAT keys zipped with the sample values
fmt_map_of(line) ==
    IF line.ntok >= 10
    THEN LET keys == line.fmt
             vals == line.sample
             ks == {keys[i] : i \in 1..Len(keys)}
             last(k) == CHOOSE i \in 1..Len(keys) :
                            keys[i] = k /\ \A j \in 1..Len(keys) : keys[j] = k => j <= i
         IN  [k \in ks |-> IF last(k) <= Len(vals) THEN vals[last(k)] ELSE <<>>]
    ELSE [k \in {} |-> <<>>]

\* simple_vcf_iter, the body of the loop over the lines of the file: what one
\* line yields.  kind is "skip" (comment, header, blank or short line),
\* "raise" (int(pos) or float(qual) raises) or "rec" (a record is yielded)
NoRec ==
    [CHROM |-> <<>>, POS |-> 0, REF |-> "", ALT |-> <<>>, QUAL |-> None,
     FILTER |-> "", INFO |-> [k \in {} |-> <<>>], FORMAT |-> [k \in {} |-> <<>>]]

simple_vcf_iter(line) ==
    IF line.kind # "data" \/ line.ntok < 8 THEN [kind |-> "skip", rec |-> NoRec]
    ELSE IF ~IntParses(line.pos) THEN [kind |-> "raise", rec |-> NoRec]
    ELSE IF line.qual # <<".">> /\ ~FloatParses(line.qual)
         THEN [kind |-> "raise", rec |-> NoRec]
    ELSE [kind |-> "rec",
          rec |-> [CHROM |-> line.chrom,
                   POS |-> IntOf(line.pos),
                   REF |-> line.ref,
                   ALT |-> Split(line.alt, ","),
                   QUAL |-> IF line.qual = <<".">> THEN None ELSE Some(FloatOf(line.qual)),
                   FILTER |-> IF line.flt = "." THEN "PASS" ELSE line.flt,
                   INFO |-> parse_info(line.info),
                   FORMAT |-> fmt_map_of(line)]]

---------------------------------------------------------------------------
(* vcf_triage.py: triage(), the body of the loop over the records *)

\* line 134: the record is dropped for its FILTER value
NonPassFails(flt, include_nonpass) == ~include_nonpass /\ flt # "PASS"

\* a slip at line 138: <= for <
QualFailsAtBoundary(qual, min_qual) == qual <= min_qual

\* line 138: the record is dropped for its quality
QualFails(qual, min_qual) == qual < min_qual

\* line 144: the record is dropped for its population frequency
AfFails(af, max_af) == af.some /\ af.v >= max_af

\* line 149: the record is dropped for its depth
DpFails(dp, min_dp) == dp < min_dp

Het == {<<"0", "/", "1">>, <<"1", "/", "0">>}
AbLow == 300    \* 0.3
AbHigh == 700   \* 0.7

\* a slip at line 154: the bounds 0.3 and 0.7 excluded
AbFailsAtBounds(gt, ab) == gt \in Het /\ ab.some /\ ~(AbLow < ab.v /\ ab.v < AbHigh)

\* line 154: the record is dropped by the heterozygote allele-balance rule
AbFails(gt, ab) == gt \in Het /\ ab.some /\ ~(AbLow <= ab.v /\ ab.v <= AbHigh)

\* lines 160-162: the record is dropped by the gene allowlist
GeneFails(gene, genes_set) == genes_set.some /\ (gene = "" \/ gene \notin genes_set.v)

\* lines 165-181: the row written for one alternate allele
TriageRow(rec, alt, ann, af, gt, dp, ab, flt) ==
    [chrom |-> rec.CHROM, pos |-> IntToStr(rec.POS), ref |-> rec.REF, alt |-> alt,
     gene |-> ann.gene, consequence |-> ann.consequence,
     hgvs_c |-> ann.hgvsc, hgvs_p |-> ann.hgvsp,
     af |-> af, gt |-> gt, dp |-> dp, ab |-> ab, filters |-> flt]

Result(oc, rows, consequence) == [oc |-> oc, rows |-> rows, consequence |-> consequence]

\* lines 133-184 for one record: oc is "raise" (float(af_raw) or int(dp)
\* raises), "kept", or the predicate that dropped the record
triage_record(rec, c) ==
    LET flt == rec.FILTER
        qual == IF rec.QUAL.some THEN rec.QUAL.v ELSE 0
        info == rec.INFO
        af_given == "AF" \in DOMAIN info /\ Len(info["AF"]) > 0
        af == IF af_given THEN Some(FloatOf(info["AF"])) ELSE None
        fmt == rec.FORMAT
        dp_given == "DP" \in DOMAIN fmt /\ Len(fmt["DP"]) > 0
        dp == IF dp_given THEN IntOf(fmt["DP"]) ELSE 0
        gt == IF "GT" \in DOMAIN fmt THEN fmt["GT"] ELSE <<>>
        ab == allele_balance(fmt)
        ann == parse_ann(info)
    IN  IF NonPassFails(flt, c.include_nonpass) THEN Result("filter", <<>>, "")
        ELSE IF QualFails(qual, c.min_qual) THEN Result("qual", <<>>, "")
        ELSE IF af_given /\ ~FloatParses(info["AF"]) THEN Result("raise", <<>>, "")
        ELSE IF AfFails(af, c.max_af) THEN Result("af", <<>>, "")
        ELSE IF dp_given /\ ~IntParses(fmt["DP"]) THEN Result("raise", <<>>, "")
        ELSE IF DpFails(dp, c.min_dp) THEN Result("dp", <<>>, "")
        ELSE IF AbFails(gt, ab) THEN Result("ab", <<>>, "")
        ELSE IF GeneFails(ann.gene, c.genes_set) THEN Result("gene", <<>>, "")
        ELSE Result("kept",
                    [i \in 1..Len(rec.ALT) |->
                        TriageRow(rec, rec.ALT[i], ann, af, gt, dp, ab, flt)],
                    ann.consequence)

\* one line of the file through simple_vcf_iter and the loop body
triage_line(line, c) ==
    LET y == simple_vcf_iter(line)
    IN  IF y.kind = "skip" THEN Result("skip", <<>>, "")
        ELSE IF y.kind = "raise" THEN Result("raise", <<>>, "")
        ELSE triage_record(y.rec, c)

\* lines 182-184: by_consequence after n rows with this consequence
Bump(counts, k, n) ==
    IF k = "" \/ n = 0 THEN counts
    ELSE [x \in DOMAIN counts \cup {k} |->
             IF x = k THEN (IF k \in DOMAIN counts THEN counts[k] ELSE 0) + n
             ELSE counts[x]]

---------------------------------------------------------------------------
(* The variant files and configurations explored *)

DefaultMinDp == 10
DefaultMinQual == 30000     \* 30.0
DefaultMaxAf == 10          \* 0.01

AFField(v) == [k |-> "AF", eq |-> TRUE, v |-> v]
ANNField(v) == [k |-> "ANN", eq |-> TRUE, v |-> v]
Ann1 == ANNField(<< <<"G", "missense_variant", "MODERATE", "GENE1",
                     "ENSG1", "Transcript", "ENST1", "", "", "c.1A>G", "p.K1R">> >>)
Ann2 == ANNField(<< <<"G", "synonymous_variant", "LOW", "GENE2">>,
                    <<"G", "missense_variant", "MODERATE", "GENE1">> >>)
AnnNoCsq == ANNField(<< <<"G", "", "LOW", "GENE1">> >>)

AfGood == AFField(<<"0", ".", "0", "0", "1">>)

GT01 == <<"0", "/", "1">>
GT10 == <<"1", "/", "0">>
GT11 == <<"1", "/", "1">>

Sample(gt, dp, ad) == <<gt, dp, ad>>

BaseLine ==
    [kind |-> "data", ntok |-> 10,
     chrom |-> <<"1">>, pos |-> <<"1", "0", "0", "0">>, ref |-> "A", alt |-> <<"G">>,
     qual |-> <<"5", "0">>, flt |-> "PASS",
     info |-> <<AfGood, Ann1>>,
     fmt |-> <<"GT", "DP", "AD">>,
     sample |-> Sample(GT01, <<"2", "0">>, <<"1", "0", ",", "1", "0">>)]

StructureLines ==
    {[BaseLine EXCEPT !.kind = "meta"],
     [BaseLine EXCEPT !.ntok = 7],
     [BaseLine EXCEPT !.ntok = 8]}

FilterLines ==
    {[BaseLine EXCEPT !.flt = f] : f \in {"PASS", ".", "q10"}}

QualLines ==
    {[BaseLine EXCEPT !.qual = q] :
        q \in {<<"3", "0">>, <<"2", "9", ".", "9">>, <<".">>, <<"h", "i">>}}

AfLines ==
    {[BaseLine EXCEPT !.info = i] :
        i \in {<<Ann1>>,
               <<AFField(<<>>), Ann1>>,
               <<AFField(<<"0", ".", "0", "1">>), Ann1>>,
               <<AFField(<<".">>), Ann1>>,
               <<AFField(<<"0", ".", "1", ",", "0", ".", "2">>), Ann1>>}}

DpLines ==
    {[BaseLine EXCEPT !.sample[2] = d] : d \in {<<"1", "0">>, <<"9">>, <<".">>}}

AdLines ==
    {[BaseLine EXCEPT !.sample[1] = GT01, !.sample[3] = a] :
        a \in {<<"7", ",", "3">>, <<"8", ",", "2">>, <<"7">>}}
    \cup {[BaseLine EXCEPT !.sample[1] = GT11, !.sample[3] = <<"8", ",", "2">>]}

GeneLines ==
    {[BaseLine EXCEPT !.info = i] : i \in {<<AfGood>>, <<AfGood, Ann2>>}}

AltLines ==
    {[BaseLine EXCEPT !.alt = <<"G", ",", "T">>, !.info = <<AfGood, AnnNoCsq>>]}

PosLines ==
    {[BaseLine EXCEPT !.pos = p] : p \in {<<"-", "5">>, <<"0">>, <<"x">>}}

VcfLines ==
    StructureLines \cup FilterLines \cup QualLines \cup AfLines \cup DpLines
        \cup AdLines \cup GeneLines \cup AltLines \cup PosLines

Configs ==
    [min_dp : {DefaultMinDp}, min_qual : {DefaultMinQual}, max_af : {DefaultMaxAf},
     include_nonpass : BOOLEAN,
     genes_set : {NoSet, Some({"GENE1"})},
     summary_path : {NoStr, Some("summary.txt")}]

---------------------------------------------------------------------------
(* vcf_triage.py: triage() as a state machine *)

DefaultConfig ==
    [min_dp |-> DefaultMinDp, min_qual |-> DefaultMinQual, max_af |-> DefaultMaxAf,
     include_nonpass |-> FALSE, genes_set |-> NoSet, summary_path |-> NoStr]

NoFile == [exists |-> FALSE, stale |-> FALSE, header |-> FALSE, rows |-> <<>>]
StaleFile == [exists |-> TRUE, stale |-> TRUE, header |-> FALSE, rows |-> <<>>]
NoSummary == [written |-> FALSE, kept |-> 0, counts |-> [k \in {} |-> 0]]

IgvIdle ==
    /\ icfg = [genome |-> "", bam |-> NoStr, bam_col |-> NoStr, flank |-> 0,
               snapshot_dir |-> NoStr, snapshot_prefix |-> NoStr]
    /\ i_pc = "idle"
    /\ table = <<>>
    /\ out_lines = <<>>
    /\ count = 0
    /\ script = [written |-> FALSE, lines |-> <<>>]

AbIdle ==
    /\ ab_in = [k \in {} |-> <<>>]
    /\ ab_out = [done |-> FALSE, oc |-> "", rows |-> <<>>]

TriageInit ==
    /\ cfg \in Configs
    /\ vcf_ok \in BOOLEAN
    /\ t_pc = "start"
    /\ csv_file \in {NoFile, StaleFile}
    /\ summary_file = NoSummary
    /\ kept = 0
    /\ by_consequence = [k \in {} |-> 0]
    /\ seen = <<>>

\* lines 128-132: out_csv is opened for writing and the header row written;
\* then the first next() on the generator opens the variant file
TriageOpen ==
    /\ t_pc = "start"
    /\ vcf_ok
    /\ csv_file' = [exists |-> TRUE, stale |-> FALSE, header |-> TRUE, rows |-> <<>>]
    /\ t_pc' = "loop"
    /\ UNCHANGED <<cfg, vcf_ok, summary_file, kept, by_consequence, seen>>
    /\ UNCHANGED <<igv_vars, ab_vars>>

\* the same, when open_text_auto raises: the with block closes out_csv, the
\* exception leaves triage() before line 186
TriageOpenFails ==
    /\ t_pc = "start"
    /\ ~vcf_ok
    /\ csv_file' = [exists |-> TRUE, stale |-> FALSE, header |-> TRUE, rows |-> <<>>]
    /\ t_pc' = "aborted"
    /\ UNCHANGED <<cfg, vcf_ok, summary_file, kept, by_consequence, seen>>
    /\ UNCHANGED <<igv_vars, ab_vars>>

\* lines 132-184: one line of the file
TriageLine ==
    /\ t_pc = "loop"
    /\ Len(seen) < MaxLines
    /\ \E line \in VcfLines :
        LET r == triage_line(line, cfg)
        IN  /\ seen' = Append(seen, [line |-> line, oc |-> r.oc, rows |-> r.rows])
            /\ csv_file' = [csv_file EXCEPT !.rows = @ \o r.rows]
            /\ kept' = kept + Len(r.rows)
            /\ by_consequence' = Bump(by_consequence, r.consequence, Len(r.rows))
            /\ t_pc' = IF r.oc = "raise" THEN "aborted" ELSE "loop"
    /\ UNCHANGED <<cfg, vcf_ok, summary_file>>
    /\ UNCHANGED <<igv_vars, ab_vars>>

\* lines 186-194: the file is exhausted; the summary is written when asked for
TriageFinish ==
    /\ t_pc = "loop"
    /\ summary_file' =
          IF cfg.summary_path.some /\ cfg.summary_path.v # ""
          THEN [written |-> TRUE, kept |-> kept, counts |-> by_consequence]
          ELSE summary_file
    /\ t_pc' = "done"
    /\ UNCHANGED <<cfg, vcf_ok, csv_file, kept, by_consequence, seen>>
    /\ UNCHANGED <<igv_vars, ab_vars>>

TriageNext == TriageOpen \/ TriageOpenFails \/ TriageLine \/ TriageFinish

Init == TriageInit /\ IgvIdle /\ AbIdle

Spec == Init /\ [][TriageNext]_vars

---------------------------------------------------------------------------
(* vcf_triage.py: the allele-balance rule on its own inputs *)

TriageIdle ==
    /\ vcf_ok = TRUE
    /\ t_pc = "idle"
    /\ csv_file = NoFile
    /\ summary_file = NoSummary
    /\ kept = 0
    /\ by_consequence = [k \in {} |-> 0]
    /\ seen = <<>>

\* the AD token "ref,alt"
AdTok(ref, alt) == IntToStr(ref) \o <<",">> \o IntToStr(alt)

AdToks ==
    {AdTok(r, a) : r \in 0..MaxAD, a \in 0..MaxAD}
        \cup {<<>>, <<"7">>, <<".">>, <<"7", ",", "x">>, <<".", ",", "3">>,
              <<"1", ",", "9", ",", "4">>, <<"9", ",", "1", ",", "x">>}

GtToks == {GT01, GT10, GT11, <<"0", "|", "1">>, <<".", "/", ".">>, <<>>}

AbLines ==
    {[BaseLine EXCEPT !.sample[1] = g, !.sample[3] = a] : g \in GtToks, a \in AdToks}
        \cup {[BaseLine EXCEPT !.fmt = <<"GT", "DP">>, !.sample[1] = g] : g \in GtToks}

AbInit ==
    /\ cfg \in Configs
    /\ ab_in \in AbLines
    /\ ab_out = [done |-> FALSE, oc |-> "", rows |-> <<>>]

\* lines 132-184 applied to one record that differs from a passing record in
\* its GT and AD only
AbApply ==
    /\ ~ab_out.done
    /\ LET r == triage_line(ab_in, cfg)
       IN  ab_out' = [done |-> TRUE, oc |-> r.oc, rows |-> r.rows]
    /\ UNCHANGED <<ab_in, triage_vars, igv_vars>>

InitAB == AbInit /\ TriageIdle /\ IgvIdle

NextAB == AbApply

SpecAB == InitAB /\ [][NextAB]_vars

---------------------------------------------------------------------------
(* igv_batch.py: make_igv_batch() *)

\* a line of the script; the fields a command does not use are empty
Cmd(cmd, arg) ==
    [cmd |-> cmd, arg |-> arg, chrom |-> <<>>, lo |-> 0, hi |-> 0,
     pos |-> <<>>, gene |-> "", csq |-> ""]
Goto(chrom, start, end) ==
    [cmd |-> "goto", arg |-> "", chrom |-> chrom, lo |-> start, hi |-> end,
     pos |-> <<>>, gene |-> "", csq |-> ""]
\* lines 86-98: the snapshot file name is kept as its parts (prefix, chrom,
\* pos, gene, consequence); the joining, sanitizing and truncation are not
\* modelled
Snapshot(prefix, chrom, pos, gene, csq) ==
    [cmd |-> "snapshot", arg |-> prefix, chrom |-> chrom, lo |-> 0, hi |-> 0,
     pos |-> pos, gene |-> gene, csq |-> csq]

Truthy(o) == o.some /\ o.v # ""

\* lines 47-49
Header(c) == <<Cmd("new", ""), Cmd("genome", c.genome)>>

\* a slip at lines 57-58: the single alignment file is never loaded
PreambleWithoutLoad(c) ==
    Header(c)
        \o (IF Truthy(c.snapshot_dir) THEN <<Cmd("snapshotDirectory", c.snapshot_dir.v)>>
            ELSE <<>>)

\* lines 47-62: the lines before the loop when the table has rows
Preamble(c) ==
    Header(c)
        \o (IF Truthy(c.bam) THEN <<Cmd("load", c.bam.v)>> ELSE <<>>)
        \o (IF Truthy(c.snapshot_dir) THEN <<Cmd("snapshotDirectory", c.snapshot_dir.v)>>
            ELSE <<>>)

\* r.get(a) or r.get(b) or "", for cells that are character sequences
GetText(r, a, b) ==
    IF a \in DOMAIN r /\ Len(r[a]) > 0 THEN r[a]
    ELSE IF b \in DOMAIN r /\ Len(r[b]) > 0 THEN r[b]
    ELSE <<>>

\* r.get(a) or "", for cells that are plain strings
GetStr(r, a) == IF a \in DOMAIN r THEN r[a] ELSE ""

\* line 68: the row is skipped
RowSkipped(chrom, pos_str) == Len(chrom) = 0 \/ ~isdigit(pos_str)

\* lines 72-73
Interval(pos, flank) ==
    [start |-> IF pos - flank > 1 THEN pos - flank ELSE 1, end |-> pos + flank]

\* lines 66-100: the lines one row appends to out_lines
RowLines(r, c) ==
    LET chrom == strip(GetText(r, "chrom", "CHROM"))
        pos_str == strip(GetText(r, "pos", "POS"))
    IN  IF RowSkipped(chrom, pos_str) THEN <<>>
        ELSE LET pos == IntOf(pos_str)
                 iv == Interval(pos, c.flank)
                 row_bam_path == IF Truthy(c.bam_col) THEN GetStr(r, c.bam_col.v) ELSE ""
             IN  (IF row_bam_path # "" THEN <<Cmd("load", row_bam_path)>> ELSE <<>>)
                 \o <<Goto(chrom, iv.start, iv.end)>>
                 \o (IF c.snapshot_dir.some
                     THEN <<Snapshot(IF Truthy(c.snapshot_prefix)
                                     THEN c.snapshot_prefix.v ELSE "",
                                     chrom, IntToStr(pos),
                                     GetStr(r, "gene"), GetStr(r, "consequence"))>>
                     ELSE <<>>)

\* the options explored
FlankSet == {0 - MaxFlank, 0, 1, MaxFlank}
IgvConfigs ==
    [genome : {"GRCh38"},
     bam : {NoStr, Some("/x/sample.bam")},
     bam_col : {NoStr, Some("bam_path")},
     flank : FlankSet,
     snapshot_dir : {NoStr, Some(""), Some("shots")},
     snapshot_prefix : {NoStr, Some("demo")}]

\* the rows explored, as csv.DictReader yields them
BaseRow ==
    [chrom |-> <<"1">>, pos |-> <<"5">>, gene |-> "GENE1",
     consequence |-> "missense_variant", bam_path |-> "/x/row.cram"]

CsvRows ==
    {[BaseRow EXCEPT !.chrom = ch] : ch \in {<<>>, <<" ">>, <<"c", "h", "r", "X">>}}
        \cup {[BaseRow EXCEPT !.pos = p] :
                 p \in {<<>>, <<"0">>, <<"1">>, <<"-", "5">>, <<"x">>, <<"1", ".", "5">>,
                        <<" ", "7", " ">>}}
        \cup {[BaseRow EXCEPT !.bam_path = "", !.gene = ""],
              [CHROM |-> <<"2">>, POS |-> <<"1", "2">>, gene |-> "", consequence |-> ""]}

IgvInit ==
    /\ icfg \in IgvConfigs
    /\ i_pc = "start"
    /\ table = <<>>
    /\ out_lines = <<>>
    /\ count = 0
    /\ script = [written |-> FALSE, lines |-> <<>>]

\* lines 47-54: the table has no data row
IgvHeaderOnly ==
    /\ i_pc = "start"
    /\ out_lines' = Header(icfg)
    /\ script' = [written |-> TRUE, lines |-> Header(icfg)]
    /\ i_pc' = "done"
    /\ UNCHANGED <<icfg, table, count>>
    /\ UNCHANGED <<triage_vars, ab_vars>>

\* lines 47-64: the table has rows
IgvPreamble ==
    /\ i_pc = "start"
    /\ out_lines' = Preamble(icfg)
    /\ i_pc' = "loop"
    /\ UNCHANGED <<icfg, table, count, script>>
    /\ UNCHANGED <<triage_vars, ab_vars>>

\* lines 65-100: one row
IgvRow(r) ==
    /\ i_pc = "loop"
    /\ LET ls == RowLines(r, icfg)
       IN  /\ table' = Append(table, [row |-> r, lines |-> ls])
           /\ out_lines' = out_lines \o ls
           /\ count' = IF Len(ls) > 0 THEN count + 1 ELSE count
    /\ UNCHANGED <<icfg, i_pc, script>>
    /\ UNCHANGED <<triage_vars, ab_vars>>

\* lines 107-108: the rows are exhausted
IgvWrite ==
    /\ i_pc = "loop"
    /\ Len(table) > 0
    /\ script' = [written |-> TRUE, lines |-> out_lines]
    /\ i_pc' = "done"
    /\ UNCHANGED <<icfg, table, out_lines, count>>
    /\ UNCHANGED <<triage_vars, ab_vars>>

IgvReadRow == Len(table) < MaxRows /\ \E r \in CsvRows : IgvRow(r)

IgvNext == IgvHeaderOnly \/ IgvPreamble \/ IgvReadRow \/ IgvWrite

InitIgv == IgvInit /\ TriageIdle /\ cfg = DefaultConfig /\ AbIdle

SpecIgv == InitIgv /\ [][IgvNext]_vars

---------------------------------------------------------------------------
(* triage() followed by make_igv_batch() on the CSV it wrote *)

\* csv.DictReader on a row written by lines 165-181: the cells by column name
DictRow(row) ==
    [chrom |-> row.chrom, pos |-> row.pos, gene |-> row.gene,
     consequence |-> row.consequence]

RoundTripConfigs ==
    {c \in IgvConfigs : /\ c.flank = 1
                        /\ c.bam.some /\ ~c.bam_col.some
                        /\ ~c.snapshot_prefix.some
                        /\ c.snapshot_dir \in {NoStr, Some("shots")}}

RoundTripInit ==
    /\ TriageInit
    /\ vcf_ok
    /\ icfg \in RoundTripConfigs
    /\ i_pc = "idle"
    /\ table = <<>>
    /\ out_lines = <<>>
    /\ count = 0
    /\ script = [written |-> FALSE, lines |-> <<>>]

\* make_igv_batch(csv_path = out_csv) is called once triage() has returned
CallIgv ==
    /\ t_pc = "done"
    /\ i_pc = "idle"
    /\ i_pc' = "start"
    /\ UNCHANGED <<icfg, table, out_lines, count, script>>
    /\ UNCHANGED <<triage_vars, ab_vars>>

CsvHeaderOnly == Len(csv_file.rows) = 0 /\ IgvHeaderOnly
CsvPreamble == Len(csv_file.rows) > 0 /\ IgvPreamble
CsvReadRow ==
    /\ Len(table) < Len(csv_file.rows)
    /\ IgvRow(DictRow(csv_file.rows[Len(table) + 1]))
CsvWrite == Len(table) = Len(csv_file.rows) /\ IgvWrite

RoundTripNext ==
    \/ TriageOpen \/ TriageLine \/ TriageFinish
    \/ CallIgv \/ CsvHeaderOnly \/ CsvPreamble \/ CsvReadRow \/ CsvWrite

InitRoundTrip == RoundTripInit /\ AbIdle

SpecRoundTrip == InitRoundTrip /\ [][RoundTripNext]_vars

---------------------------------------------------------------------------
(* What the claims say of a line of the variant file *)

IsRecordLine(line) == line.kind = "data" /\ line.ntok >= 8

InfoOf(line) == parse_info(line.info)
AfGiven(line) == "AF" \in DOMAIN InfoOf(line) /\ Len(InfoOf(line)["AF"]) > 0
AfUnparsable(line) == AfGiven(line) /\ ~FloatParses(InfoOf(line)["AF"])
DpGiven(line) ==
    "DP" \in DOMAIN fmt_map_of(line) /\ Len(fmt_map_of(line)["DP"]) > 0
GtOf(line) == IF "GT" \in DOMAIN fmt_map_of(line) THEN fmt_map_of(line)["GT"] ELSE <<>>

\* POS, QUAL and DP are readable as numbers
MandatoryParse(line) ==
    /\ IntParses(line.pos)
    /\ line.qual = <<".">> \/ FloatParses(line.qual)
    /\ DpGiven(line) => IntParses(fmt_map_of(line)["DP"])

\* a record every numeric field of which is readable
WellFormed(line) == IsRecordLine(line) /\ MandatoryParse(line) /\ ~AfUnparsable(line)

\* the first two entries of AD, when both are integers with a non-zero sum
AdPair(line) ==
    LET m == fmt_map_of(line)
        xs == IF "AD" \in DOMAIN m THEN Split(m["AD"], ",") ELSE <<>>
    IN  IF Len(xs) >= 2 /\ IntParses(xs[1]) /\ IntParses(xs[2])
           /\ IntOf(xs[1]) + IntOf(xs[2]) # 0
        THEN [ok |-> TRUE, ref |-> IntOf(xs[1]), alt |-> IntOf(xs[2])]
        ELSE [ok |-> FALSE, ref |-> 0, alt |-> 0]

\* v thousandths is alt/(ref+alt) rounded to 3 decimals: no thousandth is nearer
IsRounded(v, ref, alt) ==
    LET tot == ref + alt
        err == 1000 * alt - v * tot
        abserr == IF err < 0 THEN 0 - err ELSE err
        abstot == IF tot < 0 THEN 0 - tot ELSE tot
    IN  2 * abserr <= abstot

\* the six predicates of the filter, an unreadable AF counting as absent
KeepsAll(line, c) ==
    LET info == parse_info(line.info)
        fm == fmt_map_of(line)
        quality == IF line.qual = <<".">> THEN 0 ELSE FloatOf(line.qual)
        af_given == "AF" \in DOMAIN info /\ Len(info["AF"]) > 0
        dp_given == "DP" \in DOMAIN fm /\ Len(fm["DP"]) > 0
        depth == IF dp_given THEN IntOf(fm["DP"]) ELSE 0
        gt == IF "GT" \in DOMAIN fm THEN fm["GT"] ELSE <<>>
        gene == parse_ann(info).gene
    IN  /\ line.flt \in {"PASS", "."} \/ c.include_nonpass
        /\ quality >= c.min_qual
        /\ ~af_given \/ ~FloatParses(info["AF"]) \/ FloatOf(info["AF"]) < c.max_af
        /\ depth >= c.min_dp
        /\ ~AbFails(gt, allele_balance(fm))
        /\ ~c.genes_set.some \/ (gene # "" /\ gene \in c.genes_set.v)

NAlt(line) == Len(Split(line.alt, ","))

RECURSIVE AllRows(_)
AllRows(s) == IF Len(s) = 0 THEN <<>> ELSE AllRows(SubSeq(s, 1, Len(s) - 1)) \o s[Len(s)].rows

RECURSIVE ExpectedRows(_, _)
ExpectedRows(s, c) ==
    IF Len(s) = 0 THEN 0
    ELSE ExpectedRows(SubSeq(s, 1, Len(s) - 1), c)
            + (IF IsRecordLine(s[Len(s)].line) /\ KeepsAll(s[Len(s)].line, c)
               THEN NAlt(s[Len(s)].line) ELSE 0)

RECURSIVE SumCounts(_)
SumCounts(f) ==
    IF DOMAIN f = {} THEN 0
    ELSE LET k == CHOOSE x \in DOMAIN f : TRUE
         IN  f[k] + SumCounts([x \in DOMAIN f \ {k} |-> f[x]])

CountIf(s, P(_)) == Cardinality({i \in 1..Len(s) : P(s[i])})
HasConsequence(row) == row.consequence # ""

---------------------------------------------------------------------------
(* Claims about triage() *)

\* C1: when the variant file cannot be opened, the run aborts with the file at
\* out_csv neither created nor truncated nor written, and with no summary file
\* written.
C1_NoOutputWhenVcfMissing ==
    (t_pc = "aborted" /\ ~vcf_ok) =>
        (csv_file \in {NoFile, StaleFile} /\ ~summary_file.written)

\* C2: a record whose AF is present but not a number is treated as having no
\* AF (not dropped for its frequency, af column empty), a record whose AD is
\* not computable is not dropped by the allele-balance rule and has an empty
\* ab column, and in both cases the run goes on: the line does not abort it.
C2_OptionalParseFailuresDegrade ==
    \A i \in 1..Len(seen) :
        LET line == seen[i].line
        IN  (IsRecordLine(line) /\ MandatoryParse(line)) =>
              /\ AfUnparsable(line) =>
                    /\ seen[i].oc \notin {"raise", "af"}
                    /\ \A j \in 1..Len(seen[i].rows) : ~seen[i].rows[j].af.some
              /\ ~AdPair(line).ok =>
                    /\ seen[i].oc # "ab"
                    /\ ~AfUnparsable(line) => seen[i].oc # "raise"
                    /\ \A j \in 1..Len(seen[i].rows) : ~seen[i].rows[j].ab.some

\* C3: for every well-formed record and every configuration, rows are written
\* for the record if and only if all six predicates hold (PASS or override,
\* quality >= min_qual, AF absent or < max_af, DP >= min_dp, allele-balance
\* rule, gene allowlist), whatever the other records of the file are; the rows
\* of the file are the rows of the records, in order.
C3_KeptIffAllPredicates ==
    /\ \A i \in 1..Len(seen) :
          WellFormed(seen[i].line) =>
              /\ Len(seen[i].rows) > 0 <=> KeepsAll(seen[i].line, cfg)
              /\ seen[i].oc = "kept" <=> KeepsAll(seen[i].line, cfg)
    /\ t_pc \in {"loop", "done", "aborted"} => csv_file.rows = AllRows(seen)

\* C3 witness: a record with quality equal to min_qual is kept in second
\* place, after a non-PASS record was dropped.
C3_Witness ==
    /\ Len(seen) = 2
    /\ seen[1].oc = "filter" /\ WellFormed(seen[1].line)
    /\ seen[2].oc = "kept" /\ WellFormed(seen[2].line)
    /\ seen[2].line.qual = <<"3", "0">>
    /\ Len(csv_file.rows) = 1

\* C5: once triage has processed the lines, the number of data rows equals the
\* sum of the alternate-allele counts of the records that pass all filters
\* (short lines counting for nothing), the summary's total equals that number
\* and the per-consequence counts sum to the number of rows with a consequence.
C5_RowCountIsSumOfAlleles ==
    (t_pc \in {"done", "aborted"} /\ vcf_ok
        /\ \A i \in 1..Len(seen) :
              IsRecordLine(seen[i].line) => MandatoryParse(seen[i].line)) =>
        /\ Len(csv_file.rows) = ExpectedRows(seen, cfg)
        /\ Truthy(cfg.summary_path) =>
              /\ summary_file.written
              /\ summary_file.kept = Len(csv_file.rows)
              /\ SumCounts(summary_file.counts) = CountIf(csv_file.rows, HasConsequence)

---------------------------------------------------------------------------
(* Claim about the allele-balance rule *)

\* C4: the allele-balance rule drops a record exactly when its genotype is
\* "0/1" or "1/0", a balance is computable from the first two integers of AD
\* as alt/(ref+alt) rounded to 3 decimals, and that value is below 0.3 or
\* above 0.7; 0.3 and 0.7 themselves are kept, and a record that is not
\* heterozygous or has no computable balance is never dropped by the rule.
C4_AlleleBalanceRule ==
    ab_out.done =>
        LET p == AdPair(ab_in)
            het == GtOf(ab_in) \in {GT01, GT10}
        IN  /\ ab_out.oc \in {"ab", "kept"}
            /\ ab_out.oc = "kept" =>
                  /\ Len(ab_out.rows) = 1
                  /\ ab_out.rows[1].ab.some <=> p.ok
                  /\ p.ok => IsRounded(ab_out.rows[1].ab.v, p.ref, p.alt)
                  /\ (het /\ p.ok) =>
                        (AbLow <= ab_out.rows[1].ab.v /\ ab_out.rows[1].ab.v <= AbHigh)
            /\ ab_out.oc = "ab" =>
                  /\ het /\ p.ok
                  /\ \E v \in 0..1000 :
                        IsRounded(v, p.ref, p.alt) /\ (v < AbLow \/ v > AbHigh)
                  /\ \A v \in {AbLow, AbHigh} : ~IsRounded(v, p.ref, p.alt)

\* C4 witness: a heterozygous record with a balance of exactly 0.3 was kept.
C4_Witness ==
    /\ ab_out.done
    /\ ab_out.oc = "kept"
    /\ GtOf(ab_in) = GT01
    /\ AdPair(ab_in).ok
    /\ ab_out.rows[1].ab = Some(AbLow)

---------------------------------------------------------------------------
(* What the claims say of a row of the table and of the script *)

RowChrom(r) == strip(GetText(r, "chrom", "CHROM"))
RowPos(r) == strip(GetText(r, "pos", "POS"))

\* a positive integer written in digits
IsPositiveIntString(s) == isdigit(s) /\ IntOf(s) > 0

\* the option is given and not empty
Configured(o) == o.some /\ o.v # ""

IsGoto(l) == l.cmd = "goto"
IsSnapshot(l) == l.cmd = "snapshot"
IsPerRow(l) == l.cmd \in {"load", "goto", "snapshot"}
Produced(t) == Len(t.lines) > 0

RECURSIVE AllLines(_)
AllLines(s) ==
    IF Len(s) = 0 THEN <<>> ELSE AllLines(SubSeq(s, 1, Len(s) - 1)) \o s[Len(s)].lines

Max(a, b) == IF a > b THEN a ELSE b

\* new, genome, then the load and snapshotDirectory lines the options ask for,
\* then per-row commands only
HasFullPreamble(L, c) ==
    LET nb == IF Configured(c.bam) THEN 1 ELSE 0
        ns == IF Configured(c.snapshot_dir) THEN 1 ELSE 0
        k == 2 + nb + ns
    IN  /\ Len(L) >= k
        /\ L[1] = Cmd("new", "")
        /\ L[2] = Cmd("genome", c.genome)
        /\ Configured(c.bam) => L[3] = Cmd("load", c.bam.v)
        /\ Configured(c.snapshot_dir) => L[k] = Cmd("snapshotDirectory", c.snapshot_dir.v)
        /\ \A i \in (k + 1)..Len(L) : IsPerRow(L[i])
        /\ Configured(c.bam) =>
              Cardinality({i \in 1..k : L[i].cmd = "load"}) = 1

---------------------------------------------------------------------------
(* Claims about make_igv_batch() *)

\* C6: a row produces script lines if and only if its chromosome is non-empty
\* and its position is a positive integer string; every other row is skipped
\* and emits nothing; the returned count is the number of rows not skipped and
\* the number of goto lines.
C6_RowAcceptedIffPositivePosition ==
    i_pc \in {"loop", "done"} =>
        /\ \A i \in 1..Len(table) :
              Produced(table[i]) <=>
                  (Len(RowChrom(table[i].row)) > 0
                      /\ IsPositiveIntString(RowPos(table[i].row)))
        /\ count = CountIf(table, Produced)
        /\ count = CountIf(out_lines, IsGoto)

\* C7: every data row of a CSV that triage wrote is accepted by make_igv_batch
\* and produces exactly one goto, so the count returned equals the number of
\* data rows triage wrote.
C7_RoundTrip ==
    i_pc = "done" =>
        /\ Len(table) = Len(csv_file.rows)
        /\ \A i \in 1..Len(table) : CountIf(table[i].lines, IsGoto) = 1
        /\ count = Len(csv_file.rows)

\* C8 as stated: for every table, one with no data row included, the script is
\* written and begins with new, genome, the load line when an alignment file is
\* configured and the snapshotDirectory line when a snapshot directory is
\* configured, before any per-row command.
C8_PreambleForEveryTable ==
    i_pc = "done" => (script.written /\ HasFullPreamble(script.lines, icfg))

\* C8 as amended: the script is always written; for a table with at least one
\* data row (usable or not) it begins with the full preamble, and for a table
\* with no data row it is exactly new, genome.
C8_PreambleWhenTableHasRows ==
    i_pc = "done" =>
        /\ script.written
        /\ Len(table) > 0 => HasFullPreamble(script.lines, icfg)
        /\ Len(table) = 0 =>
              script.lines = <<Cmd("new", ""), Cmd("genome", icfg.genome)>>

\* C8 witness: a table whose rows are all malformed, with an alignment file
\* and a snapshot directory configured, was written as the preamble alone.
C8_Witness ==
    /\ i_pc = "done"
    /\ Len(table) > 1
    /\ count = 0
    /\ Configured(icfg.bam) /\ Configured(icfg.snapshot_dir)
    /\ Len(script.lines) = 4

\* C9: each non-skipped row emits, in input order, one contiguous block: a
\* load line iff a per-row alignment column is configured and the row's value
\* is non-empty, one goto chrom:max(1,P-F)-(P+F), a snapshot line iff a
\* snapshot directory is configured; with no snapshot directory there is no
\* snapshot line anywhere, and a snapshot line always has a snapshotDirectory
\* line before it.
C9_RowBlocks ==
    i_pc \in {"loop", "done"} =>
        LET body == AllLines(table)
            k == Len(out_lines) - Len(body)
        IN  /\ k >= 0
            /\ SubSeq(out_lines, k + 1, Len(out_lines)) = body
            /\ \A i \in 1..k : ~IsGoto(out_lines[i]) /\ ~IsSnapshot(out_lines[i])
            /\ \A i \in 1..Len(table) :
                  Produced(table[i]) =>
                      LET r == table[i].row
                          ls == table[i].lines
                          P == IntOf(RowPos(r))
                          F == icfg.flank
                          path == IF Configured(icfg.bam_col)
                                  THEN GetStr(r, icfg.bam_col.v) ELSE ""
                          nl == IF path # "" THEN 1 ELSE 0
                          ns == IF Configured(icfg.snapshot_dir) THEN 1 ELSE 0
                      IN  /\ Len(ls) = nl + 1 + ns
                          /\ nl = 1 => ls[1] = Cmd("load", path)
                          /\ ls[nl + 1] = Goto(RowChrom(r), Max(1, P - F), P + F)
                          /\ ns = 1 => IsSnapshot(ls[nl + 2])
            /\ ~Configured(icfg.snapshot_dir) =>
                  \A i \in 1..Len(out_lines) : ~IsSnapshot(out_lines[i])
            /\ \A j \in 1..Len(out_lines) :
                  IsSnapshot(out_lines[j]) =>
                      \E i \in 1..(j - 1) : out_lines[i].cmd = "snapshotDirectory"

\* C10: every goto line names an interval with 1 <= start <= end, whatever the
\* accepted position and the integer flank.
C10_IntervalWellFormed ==
    \A i \in 1..Len(out_lines) :
        IsGoto(out_lines[i]) => (1 <= out_lines[i].lo /\ out_lines[i].lo <= out_lines[i].hi)

====
